---- MODULE Spec2Model ----
(***************************************************************************)
(* A model of the playground module of the community bot:                  *)
(*   src/src/modules/playground.ts            (reply tracker, embed)       *)
(*   src/src/util/findCodeblockFromChannel.ts (extraction, code block)     *)
(* The LimitedSizeMap class (src/util/limitedSizeMap) is imported by       *)
(* playground.ts but its source is not part of the tree; it is modelled    *)
(* from the BoundedCache section of the specification.                     *)
(*                                                                         *)
(* Each component has a specification of its own (SpecCache,               *)
(* SpecSelection, SpecEmbed, SpecCodeBlock, SpecFind); the variables of    *)
(* the other components keep their idle values there.                      *)
(***************************************************************************)
EXTENDS Integers, Sequences, FiniteSets, TLC

VARIABLES
    pc,              \* position of the operation being modelled
    editedLongLink,  \* PlaygroundModule.editedLongLink (the bounded cache)
    order,           \* ghost: surviving keys, oldest insertion first
    lastOp,          \* ghost: the last cache call and what it observed
    params,          \* the URLSearchParams of the query (pln, pc, ssl, ssc)
    selection,       \* locals and result of getSelectionFromQuery
    unzipped,        \* decoded text of the link
    prettyLen,       \* length of the string the formatter returned
    embed,           \* the locals of createPlaygroundEmbed
    code,            \* argument of makeCodeBlock
    block,           \* result of makeCodeBlock
    msgs,            \* the fetched messages, newest first
    lz,              \* what the decompressor returns for a query segment
    found,           \* result of findCodeFromChannel / findCodeblockFromChannel
    ignoreLatest,    \* argument of findCodeblockFromChannel
    messages,        \* the messages of the channel, by id
    handlers,        \* position of the three listeners, per message
    effects,         \* replies sent, deletions requested, replies edited
    edits            \* number of messageUpdate events so far, per message

vars == <<pc, editedLongLink, order, lastOp, params, selection, unzipped,
          prettyLen, embed, code, block, msgs, lz, found, ignoreLatest,
          messages, handlers, effects, edits>>

cacheVars == <<editedLongLink, order, lastOp>>
selVars   == <<params, selection>>
embedVars == <<unzipped, prettyLen, embed>>
blockVars == <<code, block>>
findVars  == <<msgs, lz, found, ignoreLatest>>

handlerVars == <<messages, handlers, effects, edits>>

(***************************************************************************)
(* Sequence helpers.                                                       *)
(***************************************************************************)
Range(s) == {s[i] : i \in 1..Len(s)}

Min2(a, b) == IF a <= b THEN a ELSE b

Max2(a, b) == IF a >= b THEN a ELSE b

RECURSIVE SeqsUpTo(_, _)
\* All sequences over S of length at most n.
SeqsUpTo(S, n) ==
    IF n = 0 THEN {<<>>}
    ELSE LET shorter == SeqsUpTo(S, n - 1)
         IN  shorter \cup {Append(s, x) : s \in {t \in shorter : Len(t) = n - 1}, x \in S}

(***************************************************************************)
(* JavaScript values: a number, NaN or undefined.                          *)
(***************************************************************************)
Num(n) == [t |-> "number", v |-> n]

NaN == [t |-> "NaN", v |-> 0]

Undefined == [t |-> "undefined", v |-> 0]

IsNum(x) == x.t = "number"

\* a + b and a - b: NaN as soon as an operand is not a number.
JsAdd(a, b) == IF IsNum(a) /\ IsNum(b) THEN Num(a.v + b.v) ELSE NaN

JsSub(a, b) == IF IsNum(a) /\ IsNum(b) THEN Num(a.v - b.v) ELSE NaN

\* Math.min(a, b)
JsMin(a, b) == IF IsNum(a) /\ IsNum(b) THEN Num(Min2(a.v, b.v)) ELSE NaN

\* a < b, a > b, a <= b: false as soon as an operand is not a number.
JsLt(a, b) == IsNum(a) /\ IsNum(b) /\ a.v < b.v

JsGt(a, b) == IsNum(a) /\ IsNum(b) /\ a.v > b.v

JsLe(a, b) == IsNum(a) /\ IsNum(b) /\ a.v <= b.v

\* x ?? d
Coalesce(x, d) == IF x.t = "undefined" THEN d ELSE x

\* the truthiness of a number-or-undefined: 0, NaN and undefined are falsy.
Truthy(x) == IsNum(x) /\ x.v # 0

(***************************************************************************)
(* Bounds of the model.  The capacities and length limits of the program   *)
(* (1000 replies, 2048/512/256 characters) are scaled down to sizes the    *)
(* model checker can enumerate; the definitions below keep their names.    *)
(***************************************************************************)
\* capacity of editedLongLink (1000 in playground.ts)
ReplyCapacity == 2

\* message ids are 1..MaxMessageId, reply messages are 1..MaxReply
MaxMessageId == 3

MaxReply == 2

MessageIds == 1..MaxMessageId

Replies == 1..MaxReply

(***************************************************************************)
(* LimitedSizeMap: a Map (entries kept in insertion order) with a maximum  *)
(* size.  Modelled from the specification's BoundedCache.                  *)
(***************************************************************************)
LimitedSizeMapNew(maxSize) == [maxSize |-> maxSize, entries |-> <<>>]

MapKeys(m) == {m.entries[i].key : i \in 1..Len(m.entries)}

MapSize(m) == Len(m.entries)

LimitedSizeMapHas(m, k) == k \in MapKeys(m)

\* get: the value stored under k, or undefined (0 stands for it here:
\* replies are numbered from 1).
LimitedSizeMapGet(m, k) ==
    IF LimitedSizeMapHas(m, k)
    THEN (CHOOSE e \in Range(m.entries) : e.key = k).value
    ELSE 0

LimitedSizeMapDelete(m, k) ==
    [m EXCEPT !.entries = SelectSeq(m.entries, LAMBDA e : e.key # k)]

\* set: overwrite in place or append; above maxSize the first (oldest
\* inserted) entry is removed.
LimitedSizeMapSet(m, k, v) ==
    LET put == IF LimitedSizeMapHas(m, k)
               THEN [i \in 1..Len(m.entries) |->
                        IF m.entries[i].key = k
                        THEN [key |-> k, value |-> v]
                        ELSE m.entries[i]]
               ELSE Append(m.entries, [key |-> k, value |-> v])
    IN  [m EXCEPT !.entries = IF Len(put) > m.maxSize THEN Tail(put) ELSE put]

\* private editedLongLink = new LimitedSizeMap<string, Message>(1000)
EditedLongLinkOversized == LimitedSizeMapNew(ReplyCapacity + 1)

EditedLongLinkNew == LimitedSizeMapNew(ReplyCapacity)

\* this.editedLongLink.set(msg.id, botMsg)
TrackReplyRefresh(m, id, botMsg) ==
    LimitedSizeMapSet(LimitedSizeMapDelete(m, id), id, botMsg)

TrackReply(m, id, botMsg) == LimitedSizeMapSet(m, id, botMsg)

NoOp == [op |-> "none", key |-> 0, hadKey |-> FALSE, keysBefore |-> {},
         oldest |-> 0, touched |-> {}, result |-> 0]

\* ghost: the insertion order of the keys that survive in m2, after a call
\* on key k (appended when k was not there before).
OrderAfter(ord, k, m2) ==
    SelectSeq(IF k \in Range(ord) THEN ord ELSE Append(ord, k),
              LAMBDA x : x \in MapKeys(m2))

Observed(op, k, result) ==
    [op |-> op, key |-> k, hadKey |-> LimitedSizeMapHas(editedLongLink, k),
     keysBefore |-> MapKeys(editedLongLink),
     oldest |-> IF order = <<>> THEN 0 ELSE Head(order),
     \* the keys read by get or has since they were inserted
     touched |-> IF op \in {"get", "has"}
                 THEN (lastOp.touched \cup {k}) \cap MapKeys(editedLongLink)
                 ELSE lastOp.touched \ {k},
     result |-> result]

CacheSet(k, v) ==
    /\ pc = "cache"
    /\ editedLongLink' = TrackReply(editedLongLink, k, v)
    /\ order' = OrderAfter(order, k, editedLongLink')
    /\ lastOp' = Observed("set", k, v)
    /\ UNCHANGED <<pc, selVars, embedVars, blockVars, findVars,
                   handlerVars>>

CacheHas(k) ==
    /\ pc = "cache"
    /\ lastOp' = Observed("has", k,
                          IF LimitedSizeMapHas(editedLongLink, k) THEN 1 ELSE 0)
    /\ UNCHANGED <<pc, editedLongLink, order, selVars, embedVars, blockVars, findVars,
                   handlerVars>>

CacheGet(k) ==
    /\ pc = "cache"
    /\ lastOp' = Observed("get", k, LimitedSizeMapGet(editedLongLink, k))
    /\ UNCHANGED <<pc, editedLongLink, order, selVars, embedVars, blockVars, findVars,
                   handlerVars>>

CacheDelete(k) ==
    /\ pc = "cache"
    /\ editedLongLink' = LimitedSizeMapDelete(editedLongLink, k)
    /\ order' = SelectSeq(order, LAMBDA x : x # k)
    /\ lastOp' = Observed("delete", k, 0)
    /\ UNCHANGED <<pc, selVars, embedVars, blockVars, findVars,
                   handlerVars>>

(***************************************************************************)
(* Idle values of the components a specification does not exercise.        *)
(***************************************************************************)
NullParam == [t |-> "null", s |-> ""]

IdleParams == [pln |-> NullParam, pc |-> NullParam, ssl |-> NullParam, ssc |-> NullParam]

IdlePoint == [line |-> Undefined, column |-> Undefined]

IdleSelection == [cursorPosition |-> IdlePoint, selectionPosition |-> IdlePoint,
                  startLine |-> Undefined, startColumn |-> Undefined,
                  endLine |-> Undefined, endColumn |-> Undefined]

IdleEmbed == [described |-> FALSE, cumulativeLineLengths |-> <<>>,
              startChar |-> Undefined, endChar |-> Undefined,
              prettyEnd |-> Undefined, maxEnd |-> Undefined, extractLen |-> 0]

CacheIdle == editedLongLink = EditedLongLinkNew /\ order = <<>> /\ lastOp = NoOp

SelIdle == params = IdleParams /\ selection = IdleSelection

EmbedIdle == unzipped = <<>> /\ prettyLen = 0 /\ embed = IdleEmbed

BlockIdle == code = <<>> /\ block = <<>>

FindIdle == msgs = <<>> /\ lz = "null" /\ found = "undefined" /\ ignoreLatest = FALSE

HandlersIdle ==
    messages = <<>> /\ handlers = <<>> /\ effects = <<>> /\ edits = <<>>

(***************************************************************************)
(* SpecCache: any sequence of set, get, has and delete calls on            *)
(* editedLongLink.                                                         *)
(***************************************************************************)
InitCache ==
    /\ pc = "cache"
    /\ CacheIdle /\ SelIdle /\ EmbedIdle /\ BlockIdle /\ FindIdle /\ HandlersIdle

NextCache ==
    \/ \E k \in MessageIds, v \in Replies : CacheSet(k, v)
    \/ \E k \in MessageIds : CacheHas(k)
    \/ \E k \in MessageIds : CacheGet(k)
    \/ \E k \in MessageIds : CacheDelete(k)

SpecCache == InitCache /\ [][NextCache]_vars

\* C1: the number of keys retained by the reply tracker's cache never
\* exceeds its capacity N, whatever calls were made (and each key is
\* retained once).
CacheWithinCapacity ==
    /\ MapSize(editedLongLink) <= ReplyCapacity
    /\ Cardinality(MapKeys(editedLongLink)) = MapSize(editedLongLink)

\* a set of a new key arrived at a full cache, and the cache is full again
CacheFullAfterEvictingSet ==
    /\ lastOp.op = "set"
    /\ ~lastOp.hadKey
    /\ Cardinality(lastOp.keysBefore) = ReplyCapacity
    /\ MapSize(editedLongLink) = ReplyCapacity

\* C2: eviction is FIFO by insertion.  A set that pushes the number of
\* distinct keys above N evicts exactly the oldest-inserted surviving key,
\* whatever was read in between; any other set evicts nothing.
EvictionIsFifo ==
    lastOp.op = "set" =>
        IF ~lastOp.hadKey /\ Cardinality(lastOp.keysBefore) >= ReplyCapacity
        THEN MapKeys(editedLongLink) =
                (lastOp.keysBefore \ {lastOp.oldest}) \cup {lastOp.key}
        ELSE MapKeys(editedLongLink) = lastOp.keysBefore \cup {lastOp.key}

\* the oldest key was read after a newer key was inserted, and was evicted
\* all the same
EvictedOldestThoughRead ==
    /\ lastOp.op = "set"
    /\ ~lastOp.hadKey
    /\ Cardinality(lastOp.keysBefore) = ReplyCapacity
    /\ lastOp.oldest \in lastOp.touched
    /\ lastOp.oldest \notin MapKeys(editedLongLink)
    /\ MapSize(editedLongLink) = ReplyCapacity

(***************************************************************************)
(* getSelectionFromQuery and getPosFromPGURLParam.                         *)
(***************************************************************************)
\* the largest line or column number a query of the model carries
MaxParam == 3

Digits == <<"0", "1", "2", "3", "4", "5", "6", "7", "8", "9">>

Str(s) == [t |-> "string", s |-> s]

\* what params.get(name) can return: null, or the parameter's text
ParamValues ==
    {NullParam} \cup {Str(s) : s \in {"", "abc", "-1", "0"}}
                \cup {Str(Digits[n + 1]) : n \in 1..MaxParam}

\* Number(p) of a string: 0 for the empty string, the value of a numeral,
\* NaN for any other text.
ToNumber(s) ==
    IF s = "" THEN Num(0)
    ELSE IF \E n \in 0..9 : Digits[n + 1] = s
         THEN Num(CHOOSE n \in 0..9 : Digits[n + 1] = s)
         ELSE IF s = "-1" THEN Num(-1) ELSE NaN

\* n === NaN: strict equality with NaN is false for every n, NaN included.
StrictEqualsNaN(n) == FALSE

getPosFromPGURLParam(p) ==
    IF p.t = "null" THEN Undefined
    ELSE LET n == ToNumber(p.s)
         IN  IF StrictEqualsNaN(n) \/ JsLt(n, Num(1))
             THEN Undefined
             ELSE JsSub(n, Num(1))

\* (a, b) => (a.line ?? 0) - (b.line ?? 0)
CompareLines(a, b) == JsSub(Coalesce(a.line, Num(0)), Coalesce(b.line, Num(0)))

\* [x, y].sort(CompareLines): stable; y moves first only when it compares
\* below x (a NaN comparison result counts as equal).
SortPoints(x, y) ==
    IF JsGt(CompareLines(x, y), Num(0)) THEN <<y, x>> ELSE <<x, y>>

getSelectionFromQuery(q) ==
    LET cursorPosition == [line |-> getPosFromPGURLParam(q.pln),
                           column |-> getPosFromPGURLParam(q.pc)]
        selectionPosition == [line |-> getPosFromPGURLParam(q.ssl),
                              column |-> getPosFromPGURLParam(q.ssc)]
        sorted == SortPoints(cursorPosition, selectionPosition)
    IN  [cursorPosition |-> cursorPosition,
         selectionPosition |-> selectionPosition,
         startLine |-> sorted[1].line, startColumn |-> sorted[1].column,
         endLine |-> sorted[2].line, endColumn |-> sorted[2].column]

\* the Selection returned
Returned(sel) ==
    [startLine |-> sel.startLine, startColumn |-> sel.startColumn,
     endLine |-> sel.endLine, endColumn |-> sel.endColumn]

ResolveSelection ==
    /\ pc = "query"
    /\ selection' = getSelectionFromQuery(params)
    /\ pc' = "resolved"
    /\ UNCHANGED <<params, cacheVars, embedVars, blockVars, findVars,
                   handlerVars>>

(***************************************************************************)
(* SpecSelection: getSelectionFromQuery on every query of the model.       *)
(***************************************************************************)
InitSelection ==
    /\ pc = "query"
    /\ params \in [pln : ParamValues, pc : ParamValues,
                   ssl : ParamValues, ssc : ParamValues]
    /\ selection = IdleSelection
    /\ CacheIdle /\ EmbedIdle /\ BlockIdle /\ FindIdle /\ HandlersIdle

NextSelection == ResolveSelection

SpecSelection == InitSelection /\ [][NextSelection]_vars

IsSet(x) == x.t # "undefined"

\* C3: whenever both startLine and endLine of the returned Selection are
\* set, startLine <= endLine.
StartLineNotAfterEndLine ==
    pc = "resolved" =>
        (IsSet(selection.startLine) /\ IsSet(selection.endLine)
            => JsLe(selection.startLine, selection.endLine))

\* what C4 expects for a parameter p
ExpectedPos(p) ==
    IF p.t = "null" THEN Undefined
    ELSE LET n == ToNumber(p.s)
         IN  IF ~IsNum(n) \/ n.v < 1 THEN Undefined ELSE Num(n.v - 1)

\* C4: an absent, non-numeric or less-than-1 parameter is returned as
\* unset, never as a number; every other value v is returned as v - 1.
PosUnsetOrDecremented ==
    pc = "resolved" =>
        /\ selection.cursorPosition.line = ExpectedPos(params.pln)
        /\ selection.cursorPosition.column = ExpectedPos(params.pc)
        /\ selection.selectionPosition.line = ExpectedPos(params.ssl)
        /\ selection.selectionPosition.column = ExpectedPos(params.ssc)

\* the query with the (pln, pc) and (ssl, ssc) values exchanged
SwapPoints(q) == [pln |-> q.ssl, pc |-> q.ssc, ssl |-> q.pln, ssc |-> q.pc]

\* C5: exchanging the two points of the query yields the identical
\* Selection.
SelectionSymmetric ==
    pc = "resolved" =>
        Returned(selection) = Returned(getSelectionFromQuery(SwapPoints(params)))

(***************************************************************************)
(* createPlaygroundEmbed: the line-offset table and the extracted range.   *)
(* A text is a sequence of characters; of the formatter's result only the  *)
(* length enters the offsets.                                              *)
(***************************************************************************)
\* 512 and 256 in playground.ts, scaled down with the texts of the model
MAX_EMBED_LENGTH == 3

DEFAULT_EMBED_LENGTH == 2

\* longest decoded text, and longest formatter result, of the model
MaxTextLen == 4

MaxPrettyLen == 6

NL == "\n"

Texts == SeqsUpTo({"a", NL}, MaxTextLen)

RECURSIVE SplitLines(_)
\* unzipped.split('\n')
SplitLines(text) ==
    IF \A i \in 1..Len(text) : text[i] # NL THEN <<text>>
    ELSE LET i == CHOOSE j \in 1..Len(text) :
                      text[j] = NL /\ \A k \in 1..(j - 1) : text[k] # NL
         IN  <<SubSeq(text, 1, i - 1)>> \o SplitLines(SubSeq(text, i + 1, Len(text)))

RECURSIVE Accumulate(_, _, _)
\* lineLengths.reduce((acc, len, i) => { acc.push(len + acc[i] + 1); ... }, [0])
Accumulate(acc, lineLengths, i) ==
    IF i > Len(lineLengths) THEN acc
    ELSE Accumulate(Append(acc, lineLengths[i] + acc[i] + Len(<<NL>>)), lineLengths, i + 1)

CumulativeLineLengths(text) ==
    LET lines == SplitLines(text)
        lineLengths == [i \in 1..Len(lines) |-> Len(lines[i])]
    IN  Accumulate(<<0>>, lineLengths, 1)

\* arr[x]: undefined unless x is an index of arr (JavaScript counts from 0)
ArrayAt(arr, x) ==
    IF IsNum(x) /\ x.v >= 0 /\ x.v < Len(arr) THEN Num(arr[x.v + 1]) ELSE Undefined

\* arr.find(len => len > cutoff)
FindGreater(arr, cutoff) ==
    IF \E i \in 1..Len(arr) : JsGt(Num(arr[i]), cutoff)
    THEN Num(arr[CHOOSE i \in 1..Len(arr) :
                    /\ JsGt(Num(arr[i]), cutoff)
                    /\ \A j \in 1..(i - 1) : ~JsGt(Num(arr[j]), cutoff)])
    ELSE Undefined

\* the index String.prototype.slice derives from an argument, on a string
\* of n characters: NaN counts as 0, a negative value counts from the end.
SliceIndex(x, n, whenUndefined) ==
    IF x.t = "undefined" THEN whenUndefined
    ELSE IF x.t = "NaN" THEN 0
    ELSE IF x.v < 0 THEN Max2(n + x.v, 0) ELSE Min2(x.v, n)

\* pretty.slice(start, end).length
SliceLength(n, start, end) ==
    Max2(SliceIndex(end, n, n) - SliceIndex(start, n, 0), 0)

\* the locals of createPlaygroundEmbed from line 127 on, for the formatter
\* result of length p
EmbedLocals(text, sel, p) ==
    LET cumulativeLineLengths == CumulativeLineLengths(text)
        startChar == ArrayAt(cumulativeLineLengths, Coalesce(sel.startLine, Num(0)))
        cutoff == JsMin(JsAdd(startChar, Num(DEFAULT_EMBED_LENGTH)), Num(Len(text)))
        endChar == IF Truthy(sel.endLine)
                   THEN ArrayAt(cumulativeLineLengths, sel.endLine)
                   ELSE Coalesce(FindGreater(cumulativeLineLengths, cutoff),
                                 Num(cumulativeLineLengths[Len(cumulativeLineLengths)]))
        prettyEnd == JsSub(Num(p), JsSub(Num(Len(text)), endChar))
        maxEnd == JsMin(prettyEnd, JsAdd(startChar, Num(MAX_EMBED_LENGTH)))
    IN  [described |-> TRUE, cumulativeLineLengths |-> cumulativeLineLengths,
         startChar |-> startChar, endChar |-> endChar,
         prettyEnd |-> prettyEnd, maxEnd |-> maxEnd,
         extractLen |-> SliceLength(p, startChar, maxEnd)]

\* if (!unzipped) return embed
CreateEmbedWithoutCode ==
    /\ pc = "embed"
    /\ unzipped = <<>>
    /\ pc' = "linkOnly"
    /\ UNCHANGED <<params, selection, embedVars, cacheVars, blockVars, findVars,
                   handlerVars>>

\* the formatter returns a string of p characters
CreatePlaygroundEmbed(p) ==
    /\ pc = "embed"
    /\ unzipped # <<>>
    /\ selection' = getSelectionFromQuery(params)
    /\ prettyLen' = p
    /\ embed' = EmbedLocals(unzipped, selection', p)
    /\ pc' = "embedded"
    /\ UNCHANGED <<params, unzipped, cacheVars, blockVars, findVars,
                   handlerVars>>

\* format(...) throws (the text does not parse): no embed is returned
FormatThrows ==
    /\ pc = "embed"
    /\ unzipped # <<>>
    /\ selection' = getSelectionFromQuery(params)
    /\ pc' = "threw"
    /\ UNCHANGED <<params, embedVars, cacheVars, blockVars, findVars,
                   handlerVars>>

(***************************************************************************)
(* SpecEmbed: createPlaygroundEmbed on every text and every pair of line   *)
(* parameters of the model (the columns do not enter the offsets).         *)
(***************************************************************************)
InitEmbed ==
    /\ pc = "embed"
    /\ unzipped \in Texts
    /\ params \in [pln : ParamValues, pc : {NullParam},
                   ssl : ParamValues, ssc : {NullParam}]
    /\ selection = IdleSelection
    /\ prettyLen = 0
    /\ embed = IdleEmbed
    /\ CacheIdle /\ BlockIdle /\ FindIdle /\ HandlersIdle

NextEmbed ==
    \/ CreateEmbedWithoutCode
    \/ \E p \in 0..MaxPrettyLen : CreatePlaygroundEmbed(p)
    \/ FormatThrows

SpecEmbed == InitEmbed /\ [][NextEmbed]_vars

\* C6: the line-offset table has (number of lines + 1) entries, starts at
\* 0, is non-decreasing, and its final entry equals text.length.
LineOffsetTableEndsAtLength ==
    pc = "embedded" =>
        LET cll == embed.cumulativeLineLengths
        IN  /\ Len(cll) = Len(SplitLines(unzipped)) + 1
            /\ cll[1] = 0
            /\ \A i \in 1..(Len(cll) - 1) : cll[i] <= cll[i + 1]
            /\ cll[Len(cll)] = Len(unzipped)

\* C7: for every non-empty text, every Selection and every formatter
\* result, startChar <= maxEnd and the extract has at most MAX_EMBED_LENGTH
\* characters.
ExtractWithinRange ==
    pc = "embedded" =>
        /\ JsLe(embed.startChar, embed.maxEnd)
        /\ embed.extractLen <= MAX_EMBED_LENGTH

\* C16: endChar is the table entry at endLine whenever endLine is set
\* (endLine = 0 included), else the first table entry greater than
\* min(startChar + DEFAULT_EMBED_LENGTH, text.length) or, failing that, the
\* final entry; startChar is the table entry at startLine, or at line 0.
EndCharFollowsEndLine ==
    pc = "embedded" =>
        LET cll == embed.cumulativeLineLengths
            cutoff == JsMin(JsAdd(embed.startChar, Num(DEFAULT_EMBED_LENGTH)),
                            Num(Len(unzipped)))
        IN  /\ embed.startChar = ArrayAt(cll, Coalesce(selection.startLine, Num(0)))
            /\ embed.endChar =
                  IF IsSet(selection.endLine)
                  THEN ArrayAt(cll, selection.endLine)
                  ELSE Coalesce(FindGreater(cll, cutoff), Num(cll[Len(cll)]))


(***************************************************************************)
(* makeCodeBlock and escapeCode.  A string is a sequence of characters;    *)
(* "BT" is the backtick, "ZWSP" the zero-width space U+200B and "ELLIPSIS" *)
(* the character U+2026, one character each.                               *)
(***************************************************************************)
BT == "BT"

ZWSP == "ZWSP"

ELLIPSIS == "ELLIPSIS"

CODEBLOCK == <<BT, BT, BT>>

\* 2048 in findCodeblockFromChannel.ts, scaled down with the snippets
DISCORD_MAX_LENGTH == 13

\* longest snippet of the model
MaxSnippetLen == 6

\* the template ${CODEBLOCK}ts\n
OpenFence == CODEBLOCK \o <<"t", "s", NL>>

MAX_CODE_LENGTH == DISCORD_MAX_LENGTH - Len(OpenFence \o CODEBLOCK)

Snippets == SeqsUpTo({BT, "x"}, MaxSnippetLen)

\* the regular expression of escapeCode matches at i: a backtick followed
\* by a backtick (a lookahead: the second one is not consumed)
BacktickBeforeBacktick(s, i) == s[i] = BT /\ i < Len(s) /\ s[i + 1] = BT

RECURSIVE ReplaceFrom(_, _, _)
\* s with the match at every position of the set at replaced by a backtick
\* and a zero-width space
ReplaceFrom(s, i, at) ==
    IF i > Len(s) THEN <<>>
    ELSE (IF i \in at THEN <<BT, ZWSP>> ELSE <<s[i]>>) \o ReplaceFrom(s, i + 1, at)

\* replace without the g flag: the first match only
escapeCodeFirstOnly(s) ==
    LET all == {i \in 1..Len(s) : BacktickBeforeBacktick(s, i)}
    IN  ReplaceFrom(s, 1, {i \in all : \A j \in all : i <= j})

\* code.replace with the g flag: a zero-width space after every match
escapeCode(s) ==
    ReplaceFrom(s, 1, {i \in 1..Len(s) : BacktickBeforeBacktick(s, i)})

\* a truncation that keeps MAX_CODE_LENGTH characters before the marker
TruncatedOneTooLong(escaped) ==
    IF Len(escaped) > MAX_CODE_LENGTH
    THEN SubSeq(escaped, 1, MAX_CODE_LENGTH) \o <<ELLIPSIS>>
    ELSE escaped

\* escaped.slice(0, MAX_CODE_LENGTH - 1) plus the marker when
\* escaped.length > MAX_CODE_LENGTH, else escaped
Truncated(escaped) ==
    IF Len(escaped) > MAX_CODE_LENGTH
    THEN SubSeq(escaped, 1, MAX_CODE_LENGTH - 1) \o <<ELLIPSIS>>
    ELSE escaped

makeCodeBlock(s) == OpenFence \o Truncated(escapeCode(s)) \o CODEBLOCK

MakeCodeBlock ==
    /\ pc = "snippet"
    /\ block' = makeCodeBlock(code)
    /\ pc' = "rendered"
    /\ UNCHANGED <<code, cacheVars, selVars, embedVars, findVars,
                   handlerVars>>

(***************************************************************************)
(* SpecCodeBlock: makeCodeBlock on every snippet of the model.             *)
(***************************************************************************)
InitCodeBlock ==
    /\ pc = "snippet"
    /\ code \in Snippets
    /\ block = <<>>
    /\ CacheIdle /\ SelIdle /\ EmbedIdle /\ FindIdle /\ HandlersIdle

NextCodeBlock == MakeCodeBlock

SpecCodeBlock == InitCodeBlock /\ [][NextCodeBlock]_vars

\* what lies between the opening and the closing fence of a block
BlockContent(b) == SubSeq(b, Len(OpenFence) + 1, Len(b) - Len(CODEBLOCK))

\* C8: the block has at most DISCORD_MAX_LENGTH characters; an escaped
\* snippet longer than budget = DISCORD_MAX_LENGTH - (length of both
\* fences) is cut to its first budget - 1 characters followed by one
\* truncation marker, any other escaped snippet is kept whole.
BlockWithinDisplayMax ==
    pc = "rendered" =>
        LET budget == DISCORD_MAX_LENGTH - (Len(OpenFence) + Len(CODEBLOCK))
            escaped == escapeCode(code)
        IN  /\ Len(block) <= DISCORD_MAX_LENGTH
            /\ SubSeq(block, 1, Len(OpenFence)) = OpenFence
            /\ SubSeq(block, Len(block) - 2, Len(block)) = CODEBLOCK
            /\ BlockContent(block) =
                  IF Len(escaped) > budget
                  THEN SubSeq(escaped, 1, budget - 1) \o <<ELLIPSIS>>
                  ELSE escaped

\* a snippet was truncated, and the block is as long as allowed
TruncatedBlockRendered ==
    /\ pc = "rendered"
    /\ Len(escapeCode(code)) > DISCORD_MAX_LENGTH - (Len(OpenFence) + Len(CODEBLOCK))
    /\ Len(block) = DISCORD_MAX_LENGTH
    /\ block[Len(block) - Len(CODEBLOCK)] = ELLIPSIS

\* C9: between the opening and the closing fence no two backticks are
\* adjacent, for snippets with runs of backticks and truncated ones too.
NoAdjacentBackticksInContent ==
    pc = "rendered" =>
        LET content == BlockContent(block)
        IN  \A i \in 1..(Len(content) - 1) : ~(content[i] = BT /\ content[i + 1] = BT)

\* a snippet with a run of three backticks was escaped and truncated
BacktickRunEscapedAndTruncated ==
    /\ pc = "rendered"
    /\ \E i \in 1..(Len(code) - 2) : code[i] = BT /\ code[i + 1] = BT /\ code[i + 2] = BT
    /\ \E i \in 1..Len(block) : block[i] = ZWSP
    /\ block[Len(block) - Len(CODEBLOCK)] = ELLIPSIS

(***************************************************************************)
(* findCodeFromChannel.  A message is modelled by what the two regular     *)
(* expressions find in it: fence is the result of matching                 *)
(* CODEBLOCK_REGEX on its content and link the result of matching          *)
(* PLAYGROUND_REGEX (NoMatch, or the array of the whole match and its      *)
(* groups); each embed carries the result for its url.                     *)
(***************************************************************************)
\* channel.messages.fetch({limit: 10}), scaled down
FetchLimit == 2

NoMatch == <<>>

\* PLAYGROUND_REGEX has two groups: [0] the url, [1] the query, [2] the code
PlaygroundMatches ==
    {<<"url", "", "PA">>, <<"url", "?pln=2", "PX">>}

\* CODEBLOCK_REGEX has one group: [0] the block, [1] its body (not empty)
CodeblockMatches == {<<"block", "body">>}

\* an embed url is "undefined" (no url), "other" (no playground link) or
\* "playground"; the result of matching PLAYGROUND_REGEX on it
EmbedMatch(url) == IF url = "playground" THEN <<"url", "", "PB">> ELSE NoMatch

Messages ==
    [bot : BOOLEAN,
     fence : {NoMatch} \cup CodeblockMatches,
     link : {NoMatch} \cup PlaygroundMatches,
     embeds : {<<>>, <<"playground">>, <<"undefined", "other">>}]

\* match[i] of JavaScript (groups count from 0)
Group(match, i) == match[i + 1]

\* decompressFromEncodedURIComponent: the text of a well-formed payload,
\* null for the empty string and for a malformed payload; what it makes of
\* a query segment such as ?pln=2 is left open (lz: null or some text).
decompressFromEncodedURIComponent(x, onQuery) ==
    CASE x = "PA" -> "codeA"
      [] x = "PB" -> "codeB"
      [] x = "PX" -> "null"
      [] x = ""   -> "null"
      [] OTHER    -> onQuery

RECURSIVE FirstEmbedMatch(_, _)
\* the first embed whose url matches PLAYGROUND_REGEX, or NoMatch
FirstEmbedMatch(embeds, i) ==
    IF i > Len(embeds) THEN NoMatch
    ELSE IF embeds[i] # "undefined" /\ EmbedMatch(embeds[i]) # NoMatch
         THEN EmbedMatch(embeds[i])
         ELSE FirstEmbedMatch(embeds, i + 1)

RECURSIVE findCodeFromChannel(_, _, _)
\* the loop of findCodeFromChannel from message i on
findCodeFromChannel(ms, i, onQuery) ==
    IF i > Len(ms) THEN "undefined"
    ELSE LET m == ms[i]
         IN  IF ~m.bot /\ m.fence # NoMatch /\ Group(m.fence, 1) # ""
             THEN Group(m.fence, 1)
             ELSE IF m.link # NoMatch
                  THEN decompressFromEncodedURIComponent(Group(m.link, 1), onQuery)
                  ELSE IF FirstEmbedMatch(m.embeds, 1) # NoMatch
                       THEN decompressFromEncodedURIComponent(
                                Group(FirstEmbedMatch(m.embeds, 1), 1), onQuery)
                       ELSE findCodeFromChannel(ms, i + 1, onQuery)

FindCodeFromChannel ==
    /\ pc = "fetched"
    /\ found' = findCodeFromChannel(msgs, 1, lz)
    /\ pc' = "returned"
    /\ UNCHANGED <<msgs, lz, ignoreLatest, cacheVars, selVars, embedVars, blockVars,
                   handlerVars>>

(***************************************************************************)
(* SpecFind: findCodeFromChannel on every list of fetched messages.        *)
(***************************************************************************)
InitFind ==
    /\ pc = "fetched"
    /\ msgs \in SeqsUpTo(Messages, FetchLimit)
    /\ lz \in {"null", "garbage"}
    /\ found = "undefined"
    /\ ignoreLatest = FALSE
    /\ CacheIdle /\ SelIdle /\ EmbedIdle /\ BlockIdle /\ HandlersIdle

NextFind == FindCodeFromChannel

SpecFind == InitFind /\ [][NextFind]_vars

\* the candidate C10 gives a message: the fenced body (non-bot authors),
\* else the decoded payload segment of the link in the text, else the
\* decoded payload segment of the first link among the embed urls
ClaimedCandidate(m, onQuery) ==
    IF ~m.bot /\ m.fence # NoMatch THEN Group(m.fence, 1)
    ELSE IF m.link # NoMatch
         THEN decompressFromEncodedURIComponent(Group(m.link, 2), onQuery)
         ELSE decompressFromEncodedURIComponent(
                  Group(FirstEmbedMatch(m.embeds, 1), 2), onQuery)

Matches(m) ==
    \/ ~m.bot /\ m.fence # NoMatch
    \/ m.link # NoMatch
    \/ FirstEmbedMatch(m.embeds, 1) # NoMatch

\* C10: the result is the candidate of the newest message that matches,
\* with the precedence fenced body, link in the text, link in an embed,
\* where a link's candidate is its decoded payload segment; undefined when
\* no message matches.
NewestCandidateReturned ==
    pc = "returned" =>
        IF \E i \in 1..Len(msgs) : Matches(msgs[i])
        THEN LET i == CHOOSE j \in 1..Len(msgs) :
                          Matches(msgs[j]) /\ \A k \in 1..(j - 1) : ~Matches(msgs[k])
             IN  found = ClaimedCandidate(msgs[i], lz)
        ELSE found = "undefined"

RECURSIVE SkippingFind(_, _, _)
\* the scan C18 describes: a message whose candidate fails to decode
\* contributes nothing and the next older message is looked at
SkippingFind(ms, i, onQuery) ==
    IF i > Len(ms) THEN "undefined"
    ELSE IF Matches(ms[i]) /\ ClaimedCandidate(ms[i], onQuery) # "null"
         THEN ClaimedCandidate(ms[i], onQuery)
         ELSE SkippingFind(ms, i + 1, onQuery)

\* the payload of the link in the text of m fails to decode, and no fenced
\* body of m takes precedence
LinkFailsToDecode(m, onQuery) ==
    /\ ~(~m.bot /\ m.fence # NoMatch)
    /\ m.link # NoMatch
    /\ decompressFromEncodedURIComponent(Group(m.link, 2), onQuery) = "null"

\* C18: when a message matches the encoded-link pattern but its payload
\* fails to decode, the scan continues with the older messages and a
\* decodable candidate among them is returned.
DecodeFailureSkipped ==
    pc = "returned" =>
        \A i \in 1..Len(msgs) :
            (/\ \A k \in 1..(i - 1) : ~Matches(msgs[k])
             /\ LinkFailsToDecode(msgs[i], lz)
             /\ SkippingFind(msgs, i + 1, lz) # "undefined")
                => found = SkippingFind(msgs, i + 1, lz)

(***************************************************************************)
(* findCodeblockFromChannel: the body of the newest fenced block among     *)
(* the fetched messages of non-bot authors.                                *)
(***************************************************************************)
\* messages fetched per call (channel.messages.fetch({ limit: 10 }))
CodeblockFetchLimit == 3

\* what CODEBLOCK_REGEX.exec(m.content) returns: null, or the block and its
\* body (group 1, never empty: [\s\S]+)
FencedMatches == {<<"blockA", "bodyA">>, <<"blockB", "bodyB">>}

ChannelMessages == [bot : BOOLEAN, fence : {NoMatch} \cup FencedMatches]

\* .filter(msg => msg.author.bot !== true)
NonBot(ms) == SelectSeq(ms, LAMBDA m : m.bot # TRUE)

\* msgs.shift(): removes the first element (nothing to remove when empty)
Shift(ms) == IF ms = <<>> THEN ms ELSE Tail(ms)

\* .map(m => CODEBLOCK_REGEX.exec(m.content)).map(x => (x ? x[1] : ''))
\*  .filter(x => x !== '')[0]
FirstBody(ms) ==
    LET bodies == [i \in 1..Len(ms) |->
                      IF ms[i].fence # NoMatch THEN Group(ms[i].fence, 1) ELSE ""]
        kept == SelectSeq(bodies, LAMBDA x : x # "")
    IN  IF kept = <<>> THEN "undefined" ELSE kept[1]

findCodeblockShiftFirst(ms, ignore) ==
    FirstBody(NonBot(IF ignore THEN Shift(ms) ELSE ms))

findCodeblockFromChannel(ms, ignore) ==
    LET kept == NonBot(ms)
    IN  FirstBody(IF ignore THEN Shift(kept) ELSE kept)

FindCodeblockFromChannel ==
    /\ pc = "fetchedForBlock"
    /\ found' = findCodeblockFromChannel(msgs, ignoreLatest)
    /\ pc' = "blockReturned"
    /\ UNCHANGED <<msgs, lz, ignoreLatest, cacheVars, selVars, embedVars, blockVars,
                   handlerVars>>

(***************************************************************************)
(* SpecFindCodeblock: findCodeblockFromChannel on every list of fetched    *)
(* messages, with and without ignoreLatest.                                *)
(***************************************************************************)
InitFindCodeblock ==
    /\ pc = "fetchedForBlock"
    /\ msgs \in SeqsUpTo(ChannelMessages, CodeblockFetchLimit)
    /\ ignoreLatest \in BOOLEAN
    /\ lz = "null"
    /\ found = "undefined"
    /\ CacheIdle /\ SelIdle /\ EmbedIdle /\ BlockIdle /\ HandlersIdle

NextFindCodeblock == FindCodeblockFromChannel

SpecFindCodeblock == InitFindCodeblock /\ [][NextFindCodeblock]_vars

\* the body of the newest message among those at the positions in idx that
\* holds a fenced block
NewestBodyAt(idx) ==
    LET withBlock == {i \in idx : msgs[i].fence # NoMatch}
    IN  IF withBlock = {} THEN "undefined"
        ELSE Group(msgs[CHOOSE i \in withBlock : \A j \in withBlock : i <= j].fence, 1)

NonBotPositions == {i \in 1..Len(msgs) : ~msgs[i].bot}

\* C17 as stated: with ignoreLatest the newest fetched message is the one
\* left out, whoever wrote it, and every other non-bot message is
\* considered.
NewestFetchedIgnored ==
    (pc = "blockReturned" /\ ignoreLatest) =>
        found = NewestBodyAt(NonBotPositions \ {1})

\* C17, amended: with ignoreLatest the newest fetched message of a non-bot
\* author is the one left out, and every other non-bot message is
\* considered; without it every non-bot message is considered.
NewestNonBotIgnored ==
    pc = "blockReturned" =>
        LET newest == {i \in NonBotPositions : \A j \in NonBotPositions : i <= j}
        IN  found = NewestBodyAt(IF ignoreLatest
                                 THEN NonBotPositions \ newest
                                 ELSE NonBotPositions)

\* the newest message is a bot's, the newest non-bot message holds a block
\* and is left out, the block of the message before it is returned
BlockAfterBotLeftOut ==
    /\ pc = "blockReturned" /\ ignoreLatest
    /\ Len(msgs) = 3
    /\ msgs[1].bot /\ ~msgs[2].bot /\ ~msgs[3].bot
    /\ msgs[2].fence # NoMatch /\ msgs[3].fence # NoMatch
    /\ msgs[2].fence # msgs[3].fence
    /\ found = Group(msgs[3].fence, 1)

(***************************************************************************)
(* The three listeners of PlaygroundModule: onPlaygroundLinkMessage and    *)
(* onPlaygroundLinkAttachment ('message'), onLongFix ('messageUpdate').    *)
(* Each listener runs from the event to its first await in one step, and   *)
(* from the completion of an await to the next await (or to its end) in    *)
(* one step; between these steps the listeners of all events interleave.   *)
(* An awaited call that changes the channel (a send, an edit) resolves or  *)
(* rejects, and a rejection ends the listener.  The calls that only read   *)
(* (the text of the attachment, the partial message, the answer of the     *)
(* shortener) resolve: their rejection ends the listener where it stands,  *)
(* with no effect.  The outcome of the call a listener awaits last changes *)
(* nothing that is recorded here, so only its resolution is a step.  A listener is "idle" before its event,           *)
(* "returned" after one of its early returns, "end" (or the end of the     *)
(* branch it took) after its last statement, "rejected" when an awaited    *)
(* call was rejected and "threw" after a throw statement.                  *)
(***************************************************************************)
\* number of messages posted in the channel
MaxMessages == 1

\* number of messageUpdate events
MaxEdits == 1

EventIds == 1..MaxMessages

\* msg.content: empty, text without a link, exactly one link, or a link
\* together with other characters
Contents == {"", "text", "link", "linkAndText"}

\* msg.content after an edit: onLongFix reads whether it holds a link,
\* onPlaygroundLinkAttachment whether it is empty
EditedContents == {"", "text", "linkAndText"}

\* the text of the attachment named message.txt, "none" without one
Attachments == {"none", "text", "link", "linkAndText"}

\* PLAYGROUND_REGEX.exec(content) is not null
PlaygroundExec(content) == content \in {"link", "linkAndText"}

\* exec[0] === content
AnyLinkIsWhole(content) == PlaygroundExec(content)

WholeContentIsLink(content) == content = "link"

\* msg.author.bot
AuthorNeverBot(bot) == FALSE

AuthorIsBot(bot) == bot

\* botMsg of onPlaygroundLinkMessage, and the reply onPlaygroundLinkAttachment
\* sends, for message m (0 stands for undefined)
LinkReply(m) == 2 * m - 1

AttachmentReply(m) == 2 * m

RECURSIVE EditCount(_, _)
\* the messageUpdate events of messages 1..n
EditCount(count, n) == IF n = 0 THEN 0 ELSE count[n] + EditCount(count, n - 1)

NotPosted == [posted |-> FALSE, bot |-> FALSE, content |-> "", attachment |-> "none"]

NotStarted == [link |-> "idle", attachment |-> "idle", fix |-> "idle",
               botMsg |-> 0, shortened |-> "none"]

NoEffects == [sent |-> {}, deleted |-> {}, edited |-> {}]

\* onPlaygroundLinkMessage up to its first await; createPlaygroundEmbed
\* throws when the formatter rejects the code of the link
LinkMessageStart(bot, content, formats) ==
    IF AuthorIsBot(bot) THEN "returned"
    ELSE IF ~PlaygroundExec(content) THEN "returned"
    ELSE IF ~formats THEN "threw"
    ELSE IF WholeContentIsLink(content) THEN "awaitOwnedSend"
    ELSE "awaitSend"

\* onPlaygroundLinkAttachment up to its first await
LinkAttachmentStart(bot, attachment) ==
    IF AuthorIsBot(bot) \/ attachment = "none" THEN "returned" ELSE "awaitFetch"

\* a 'message' event: both listeners start
OnMessage(m, bot, content, attachment, formats) ==
    /\ pc = "listening"
    /\ ~messages[m].posted
    /\ \A k \in 1..(m - 1) : messages[k].posted
    /\ content = "" => attachment # "none"
    /\ messages' = [messages EXCEPT ![m] =
                       [posted |-> TRUE, bot |-> bot, content |-> content,
                        attachment |-> attachment]]
    /\ handlers' = [handlers EXCEPT ![m].link = LinkMessageStart(bot, content, formats),
                                    ![m].attachment = LinkAttachmentStart(bot, attachment)]
    /\ UNCHANGED <<pc, effects, edits, cacheVars, selVars, embedVars, blockVars, findVars>>

\* whether msg.delete() follows await sendWithMessageOwnership(msg, { embed })
DeleteWhateverSend(resolved) == TRUE

DeleteFollowsSend(resolved) == resolved

\* await sendWithMessageOwnership(msg, { embed }) is over; msg.delete()
OnlyLinkSendCompleted(m, resolved) ==
    /\ pc = "listening"
    /\ handlers[m].link = "awaitOwnedSend"
    /\ effects' = [effects EXCEPT
           !.sent = IF resolved THEN @ \cup {LinkReply(m)} ELSE @,
           !.deleted = IF DeleteFollowsSend(resolved) THEN @ \cup {<<m, "link">>} ELSE @]
    /\ handlers' = [handlers EXCEPT ![m].link =
                       IF DeleteFollowsSend(resolved) THEN "awaitDelete" ELSE "rejected"]
    /\ UNCHANGED <<pc, messages, edits, cacheVars, selVars, embedVars, blockVars, findVars>>

\* await msg.delete() is over
OnlyLinkDeleteCompleted(m) ==
    /\ pc = "listening"
    /\ handlers[m].link = "awaitDelete"
    /\ handlers' = [handlers EXCEPT ![m].link = "endOnlyLink"]
    /\ UNCHANGED <<pc, messages, effects, edits, cacheVars, selVars, embedVars, blockVars,
                   findVars>>

\* await msg.channel.send(...) is over; this.editedLongLink.set(msg.id, botMsg)
LongLinkSendCompleted(m, resolved) ==
    /\ pc = "listening"
    /\ handlers[m].link = "awaitSend"
    /\ IF resolved
       THEN /\ effects' = [effects EXCEPT !.sent = @ \cup {LinkReply(m)}]
            /\ editedLongLink' = TrackReply(editedLongLink, m, LinkReply(m))
            /\ handlers' = [handlers EXCEPT ![m].link = "awaitOwnership"]
       ELSE /\ handlers' = [handlers EXCEPT ![m].link = "rejected"]
            /\ UNCHANGED <<effects, editedLongLink>>
    /\ UNCHANGED <<pc, messages, edits, order, lastOp, selVars, embedVars, blockVars,
                   findVars>>

\* await addMessageOwnership(botMsg, msg.author) is over
LongLinkOwnershipCompleted(m) ==
    /\ pc = "listening"
    /\ handlers[m].link = "awaitOwnership"
    /\ handlers' = [handlers EXCEPT ![m].link = "endLongLink"]
    /\ UNCHANGED <<pc, messages, effects, edits, cacheVars, selVars, embedVars, blockVars,
                   findVars>>

\* !(!exec || exec[0] !== content), on the text of the attachment
AttachmentHasLink(text) == PlaygroundExec(text)

AttachmentIsExactLink(text) == PlaygroundExec(text) /\ WholeContentIsLink(text)

\* what the link shortener answered: a body with a string shortened, or
\* a body without one
ShortenerResponses == {"string", "invalid"}

\* !(typeof shortened !== 'string')
ShortenedAccepted(response) == TRUE

ShortenedIsString(response) == response = "string"

\* await fetch(attachment.url).then(r => r.text()) is over
AttachmentFetched(m) ==
    /\ pc = "listening"
    /\ handlers[m].attachment = "awaitFetch"
    /\ handlers' = [handlers EXCEPT ![m].attachment =
                       IF ~AttachmentIsExactLink(messages[m].attachment) THEN "returned"
                       ELSE "awaitShorten"]
    /\ UNCHANGED <<pc, messages, effects, edits, cacheVars, selVars, embedVars, blockVars,
                   findVars>>

\* await shortenPlaygroundLink(exec[0]) is over: the answer is checked (and
\* an error thrown), then the embed is made (createPlaygroundEmbed throws
\* when the formatter rejects the code) and the reply is sent
AttachmentShortened(m, response, formats) ==
    /\ pc = "listening"
    /\ handlers[m].attachment = "awaitShorten"
    /\ handlers' = [handlers EXCEPT
           ![m].attachment = IF ShortenedIsString(response) /\ formats THEN "awaitSend"
                             ELSE "threw",
           ![m].shortened = response]
    /\ UNCHANGED <<pc, messages, effects, edits, cacheVars, selVars, embedVars, blockVars,
                   findVars>>

\* await sendWithMessageOwnership(msg, { embed }) is over;
\* if (!msg.content) msg.delete()
AttachmentSendCompleted(m, resolved) ==
    /\ pc = "listening"
    /\ handlers[m].attachment = "awaitSend"
    /\ IF resolved
       THEN /\ effects' = [effects EXCEPT
                   !.sent = @ \cup {AttachmentReply(m)},
                   !.deleted = IF messages[m].content = ""
                               THEN @ \cup {<<m, "attachment">>} ELSE @]
            /\ handlers' = [handlers EXCEPT ![m].attachment =
                               IF messages[m].content = "" THEN "awaitDelete"
                               ELSE "end"]
       ELSE /\ handlers' = [handlers EXCEPT ![m].attachment = "rejected"]
            /\ UNCHANGED effects
    /\ UNCHANGED <<pc, messages, edits, cacheVars, selVars, embedVars, blockVars, findVars>>

\* await msg.delete() is over
AttachmentDeleteCompleted(m) ==
    /\ pc = "listening"
    /\ handlers[m].attachment = "awaitDelete"
    /\ handlers' = [handlers EXCEPT ![m].attachment = "end"]
    /\ UNCHANGED <<pc, messages, effects, edits, cacheVars, selVars, embedVars, blockVars,
                   findVars>>

\* msg.author.bot || !this.editedLongLink.has(msg.id) || exec
LongFixSkips(m, bot, content) ==
    \/ AuthorIsBot(bot)
    \/ ~LimitedSizeMapHas(editedLongLink, m)
    \/ PlaygroundExec(content)

\* onLongFix from the test of line 103 to await botMsg?.edit('')
LongFixFrom(m, bot, content) ==
    IF LongFixSkips(m, bot, content)
    THEN [handlers EXCEPT ![m].fix = "returned"]
    ELSE [handlers EXCEPT ![m].fix = "awaitEdit",
                          ![m].botMsg = LimitedSizeMapGet(editedLongLink, m)]

\* this.editedLongLink.delete(msg.id)
KeepReply(m, id) == m

ForgetReply(m, id) == LimitedSizeMapDelete(m, id)

\* a 'messageUpdate' event: the content of message m is now content.  One
\* onLongFix per message runs at a time.
OnMessageUpdate(m, content, partial) ==
    /\ pc = "listening"
    /\ messages[m].posted
    /\ EditCount(edits, MaxMessages) < MaxEdits
    /\ handlers[m].fix \in {"idle", "returned", "end", "rejected"}
    /\ content = "" => messages[m].attachment # "none"
    /\ edits' = [edits EXCEPT ![m] = @ + 1]
    /\ messages' = [messages EXCEPT ![m].content = content]
    /\ handlers' = IF partial
                   THEN [handlers EXCEPT ![m].fix = "awaitFetch"]
                   ELSE LongFixFrom(m, messages[m].bot, content)
    /\ UNCHANGED <<pc, effects, cacheVars, selVars, embedVars, blockVars, findVars>>

\* await msg.fetch() is over
LongFixFetched(m) ==
    /\ pc = "listening"
    /\ handlers[m].fix = "awaitFetch"
    /\ handlers' = LongFixFrom(m, messages[m].bot, messages[m].content)
    /\ UNCHANGED <<pc, messages, effects, edits, cacheVars, selVars, embedVars, blockVars,
                   findVars>>

\* await botMsg?.edit('') is over; this.editedLongLink.delete(msg.id)
LongFixEdited(m, resolved) ==
    /\ pc = "listening"
    /\ handlers[m].fix = "awaitEdit"
    /\ IF resolved
       THEN /\ effects' = [effects EXCEPT !.edited = @ \cup {handlers[m].botMsg}]
            /\ editedLongLink' = ForgetReply(editedLongLink, m)
            /\ handlers' = [handlers EXCEPT ![m].fix = "end"]
       ELSE /\ handlers' = [handlers EXCEPT ![m].fix = "rejected"]
            /\ UNCHANGED <<effects, editedLongLink>>
    /\ UNCHANGED <<pc, messages, edits, order, lastOp, selVars, embedVars, blockVars,
                   findVars>>

(***************************************************************************)
(* Spec: the listeners on every sequence of message and edit events.       *)
(***************************************************************************)
Init ==
    /\ pc = "listening"
    /\ messages = [m \in EventIds |-> NotPosted]
    /\ handlers = [m \in EventIds |-> NotStarted]
    /\ effects = NoEffects
    /\ edits = [m \in EventIds |-> 0]
    /\ CacheIdle /\ SelIdle /\ EmbedIdle /\ BlockIdle /\ FindIdle

Next ==
    \E m \in EventIds :
        \/ \E bot \in BOOLEAN, content \in Contents, attachment \in Attachments,
              formats \in BOOLEAN :
               OnMessage(m, bot, content, attachment, formats)
        \/ \E resolved \in BOOLEAN : OnlyLinkSendCompleted(m, resolved)
        \/ OnlyLinkDeleteCompleted(m)
        \/ \E resolved \in BOOLEAN : LongLinkSendCompleted(m, resolved)
        \/ LongLinkOwnershipCompleted(m)
        \/ AttachmentFetched(m)
        \/ \E response \in ShortenerResponses, formats \in BOOLEAN :
               AttachmentShortened(m, response, formats)
        \/ \E resolved \in BOOLEAN : AttachmentSendCompleted(m, resolved)
        \/ AttachmentDeleteCompleted(m)
        \/ \E content \in EditedContents, partial \in BOOLEAN :
               OnMessageUpdate(m, content, partial)
        \/ LongFixFetched(m)
        \/ \E resolved \in BOOLEAN : LongFixEdited(m, resolved)

Spec == Init /\ [][Next]_vars

(***************************************************************************)
(* Claims on the listeners.                                                *)
(***************************************************************************)
\* onLongFix of message m reaches its test (line 103) in this step: at the
\* messageUpdate event, or when the fetch of a partial message resolves
LongFixTests(m) ==
    \/ /\ edits'[m] # edits[m]
       /\ handlers'[m].fix # "awaitFetch"
    \/ /\ handlers[m].fix = "awaitFetch"
       /\ handlers'[m].fix # "awaitFetch"

LongFixOnEdit(m) ==
    /\ (LongFixTests(m) /\ ~messages'[m].bot) =>
           IF /\ LimitedSizeMapHas(editedLongLink, m)
              /\ messages'[m].content \notin {"link", "linkAndText"}
           THEN /\ handlers'[m].fix = "awaitEdit"
                /\ handlers'[m].botMsg = LimitedSizeMapGet(editedLongLink, m)
           ELSE /\ handlers'[m].fix = "returned"
                /\ handlers'[m].botMsg = handlers[m].botMsg
                /\ effects' = effects
                /\ editedLongLink' = editedLongLink
    /\ (handlers[m].fix = "awaitEdit" /\ handlers'[m].fix = "end") =>
           /\ effects'.edited = effects.edited \cup {handlers[m].botMsg}
           /\ ~LimitedSizeMapHas(editedLongLink', m)
           /\ \A k \in EventIds \ {m} :
                  LimitedSizeMapGet(editedLongLink', k) = LimitedSizeMapGet(editedLongLink, k)

\* C11: at an edit of a non-bot message m, when the cache holds an entry
\* for m and the edited content holds no link, the edit of the stored reply
\* is issued, and once it is done the reply is cleared and the entry of m
\* is removed (no other entry is); when the content still holds a link or
\* the cache has no entry for m, no reply is edited and the cache stays as
\* it is.
LongFixClearsOrLeaves == [][\A m \in EventIds : LongFixOnEdit(m)]_vars

\* the reply to message 1 has been cleared by onLongFix and its entry is
\* gone
ReplyClearedAndForgotten ==
    /\ handlers[1].fix = "end"
    /\ ~messages[1].bot /\ messages[1].content = "text"
    /\ LinkReply(1) \in effects.edited
    /\ ~LimitedSizeMapHas(editedLongLink, 1)

\* the 'message' event of m happens in this step
Posted(m) == ~messages[m].posted /\ messages'[m].posted

OnlyLinkOrder(m) ==
    /\ (Posted(m) /\ ~messages'[m].bot /\ messages'[m].content = "link") =>
           /\ handlers'[m].link \in {"awaitOwnedSend", "threw"}
           /\ effects' = effects
           /\ editedLongLink' = editedLongLink
    /\ handlers[m].link \in {"awaitOwnedSend", "awaitDelete"} =>
           /\ handlers'[m].link \in {"awaitOwnedSend", "awaitDelete", "endOnlyLink",
                                     "rejected"}
           /\ LimitedSizeMapHas(editedLongLink', m) = LimitedSizeMapHas(editedLongLink, m)
    /\ (handlers[m].link = "awaitOwnedSend" /\ handlers'[m].link = "rejected") =>
           effects' = effects

OnlyLinkState(m) ==
    /\ <<m, "link">> \in effects.deleted => LinkReply(m) \in effects.sent
    /\ handlers[m].link = "awaitOwnedSend" =>
           LinkReply(m) \notin effects.sent /\ <<m, "link">> \notin effects.deleted
    /\ handlers[m].link \in {"awaitOwnedSend", "awaitDelete", "endOnlyLink"} =>
           ~LimitedSizeMapHas(editedLongLink, m)

\* C12: for a non-bot message whose whole content is the link, the reply is
\* sent first and the deletion of the message is requested only once the
\* send has resolved (never after a rejected send), and no cache entry is
\* recorded for the message.
OnlyLinkRepliedThenDeleted ==
    /\ [](\A m \in EventIds : OnlyLinkState(m))
    /\ [][\A m \in EventIds : OnlyLinkOrder(m)]_vars

\* the reply to message 1 was sent and its deletion requested
OnlyLinkDeletionRequested ==
    /\ handlers[1].link = "awaitDelete"
    /\ LinkReply(1) \in effects.sent
    /\ <<1, "link">> \in effects.deleted

LongLinkOrder(m) ==
    /\ (Posted(m) /\ ~messages'[m].bot /\ messages'[m].content = "linkAndText") =>
           handlers'[m].link \in {"awaitSend", "threw"} /\ effects' = effects
    /\ (handlers[m].link = "awaitSend" /\ handlers'[m].link = "awaitOwnership") =>
           /\ effects'.sent = effects.sent \cup {LinkReply(m)}
           /\ effects'.deleted = effects.deleted
           /\ LimitedSizeMapGet(editedLongLink', m) = LinkReply(m)
    /\ handlers[m].link \in {"awaitSend", "awaitOwnership"} =>
           handlers'[m].link \in {"awaitSend", "awaitOwnership", "endLongLink", "rejected"}

LongLinkState(m) ==
    handlers[m].link \in {"awaitSend", "awaitOwnership", "endLongLink"} =>
        /\ <<m, "link">> \notin effects.deleted
        /\ LimitedSizeMapHas(editedLongLink, m) =>
               /\ LimitedSizeMapGet(editedLongLink, m) = LinkReply(m)
               /\ LinkReply(m) \in effects.sent

\* C13: for a non-bot message holding the link and other text, the
\* follow-up reply is sent, the listener never requests the deletion of the
\* message, and when the send has resolved the cache maps the id of the
\* message to exactly that reply.
LongLinkRepliedAndTracked ==
    /\ [](\A m \in EventIds : LongLinkState(m))
    /\ [][\A m \in EventIds : LongLinkOrder(m)]_vars

\* the follow-up reply to message 1 was sent and is tracked
LongLinkTracked ==
    /\ handlers[1].link = "endLongLink"
    /\ messages[1].content = "linkAndText"
    /\ LinkReply(1) \in effects.sent
    /\ LimitedSizeMapGet(editedLongLink, 1) = LinkReply(1)
    /\ effects.deleted = {}

AttachmentOrder(m) ==
    /\ (handlers[m].attachment = "awaitSend" /\ handlers'[m].attachment # "awaitSend") =>
           (<<m, "attachment">> \in effects'.deleted
                <=> (AttachmentReply(m) \in effects'.sent /\ messages[m].content = ""))
    /\ handlers'[m].attachment # handlers[m].attachment =>
           /\ editedLongLink' = editedLongLink
           /\ effects'.deleted \subseteq effects.deleted \cup {<<m, "attachment">>}
           /\ effects'.sent \subseteq effects.sent \cup {AttachmentReply(m)}
           /\ effects'.edited = effects.edited

AttachmentState(m) ==
    /\ (handlers[m].attachment \in {"awaitShorten", "awaitSend"}
            \/ AttachmentReply(m) \in effects.sent) =>
           ~messages[m].bot /\ messages[m].attachment = "link"
    /\ <<m, "attachment">> \in effects.deleted => AttachmentReply(m) \in effects.sent
    /\ (messages[m].posted /\ ~messages[m].bot /\ messages[m].attachment = "link") =>
           handlers[m].attachment # "returned"

\* C14: onPlaygroundLinkAttachment sends a reply only for a non-bot message
\* whose message.txt is, as a whole, exactly one link (and such a message is
\* not passed over); it requests the deletion of the message exactly when
\* the reply was sent and the text of the message is empty; it never writes
\* to the cache.
AttachmentRepliedWhenExactLink ==
    /\ [](\A m \in EventIds : AttachmentState(m))
    /\ [][\A m \in EventIds : AttachmentOrder(m)]_vars

\* message 1 has no text and a link as its message.txt: replied, deletion
\* requested, nothing tracked
AttachmentRepliedAndDeleted ==
    /\ handlers[1].attachment = "awaitDelete"
    /\ messages[1].content = "" /\ messages[1].attachment = "link"
    /\ AttachmentReply(1) \in effects.sent
    /\ <<1, "attachment">> \in effects.deleted
    /\ MapSize(editedLongLink) = 0

ShortenerErrorOrder(m) ==
    (handlers[m].attachment = "awaitShorten" /\ handlers'[m].shortened = "invalid") =>
        /\ handlers' = [handlers EXCEPT ![m].attachment = "threw",
                                        ![m].shortened = "invalid"]
        /\ UNCHANGED <<messages, effects, edits, editedLongLink>>

ShortenerErrorState(m) ==
    handlers[m].shortened = "invalid" =>
        /\ handlers[m].attachment = "threw"
        /\ AttachmentReply(m) \notin effects.sent
        /\ <<m, "attachment">> \notin effects.deleted

\* C15: when the shortener answers without a string shortened, the error
\* ends the handling of that attachment event: no reply is sent for it, the
\* message is not deleted by it, and the cache and every other listener are
\* left as they were.
ShortenerErrorEndsListener ==
    /\ [](\A m \in EventIds : ShortenerErrorState(m))
    /\ [][\A m \in EventIds : ShortenerErrorOrder(m)]_vars

\* onPlaygroundLinkAttachment threw for message 1; the other listener of
\* its message event and the listener of its edit event ran to their end
ThrewWhileOthersWentOn ==
    /\ handlers[1].attachment = "threw"
    /\ handlers[1].link = "endLongLink"
    /\ handlers[1].fix = "end"
    /\ effects = [sent |-> {LinkReply(1)}, deleted |-> {}, edited |-> {LinkReply(1)}]

\* a listener of message m moves in this step
ListenerMoves(m) ==
    \/ handlers'[m] # handlers[m]
    \/ messages'[m] # messages[m]
    \/ edits'[m] # edits[m]

BotEventFrame(m) ==
    (messages'[m].bot /\ ListenerMoves(m)) =>
        /\ effects' = effects
        /\ editedLongLink' = editedLongLink

BotEventState(m) ==
    messages[m].bot =>
        /\ handlers[m].link \in {"idle", "returned"}
        /\ handlers[m].attachment \in {"idle", "returned"}
        /\ handlers[m].fix \in {"idle", "awaitFetch", "returned"}

\* C20: the events of a message written by a bot have no effect: none of
\* the three listeners sends, edits or deletes anything (none of them gets
\* as far as awaiting such a call), and the cache stays as it is.
BotMessagesIgnored ==
    /\ [](\A m \in EventIds : BotEventState(m))
    /\ [][\A m \in EventIds : BotEventFrame(m)]_vars

\* a bot message with a link as its message.txt was posted and edited
BotMessageEditedToNoAvail ==
    /\ messages[1].bot /\ messages[1].attachment = "link"
    /\ messages[1].content = "linkAndText"
    /\ edits[1] = 1
    /\ handlers[1] = [NotStarted EXCEPT !.link = "returned", !.attachment = "returned",
                                        !.fix = "returned"]
    /\ effects = NoEffects
    /\ MapSize(editedLongLink) = 0

\* every listener has run to its end, none was cut short by a rejected call
\* or an error
AllFinished ==
    \A m \in EventIds :
        /\ handlers[m].link \in {"idle", "returned", "endOnlyLink", "endLongLink"}
        /\ handlers[m].attachment \in {"idle", "returned", "end"}
        /\ handlers[m].fix \in {"idle", "returned", "end"}

\* C19: whatever the interleaving of the listeners at their awaits, once
\* they have all finished no message is left with its id in the cache and a
\* reply that was never cleared while its latest content holds no link.
NoStaleLongLinkEntry ==
    AllFinished =>
        ~\E m \in EventIds :
            /\ messages[m].posted
            /\ LimitedSizeMapHas(editedLongLink, m)
            /\ LimitedSizeMapGet(editedLongLink, m) \notin effects.edited
            /\ messages[m].content \notin {"link", "linkAndText"}

====
